---- MODULE Spec2Model ----
\* A model of src/email_processor.py: the EmailProcessor class (bounded-retry
\* IMAP connect, header normalisation, MongoDB upsert keyed on message_id) and
\* the sweep process_unread_emails run by main().
EXTENDS Integers, Sequences, FiniteSets, TLC

VARIABLES
    pc,            \* position of the main flow
    db_ready,      \* self.db is set (line 41 executed)
    index_unique,  \* the unique index on message_id exists (line 42)
    store,         \* the documents of the collection
    attempt,       \* loop variable of connect_to_email_server
    waits,         \* number of time.sleep(retry_delay) calls of the connect
    mail,          \* 'mail' in locals() of process_unread_emails
    email_ids,     \* ids of the for loop not yet visited
    msg,           \* <<message>> fetched for the current id, or <<>>
    email_data,    \* <<record>> returned by process_email, or <<>> for None
    email_dict,    \* <<email_dict>> the last save_to_database wrote, or <<>>
    calls,         \* calls made on the collaborators during this sweep, in order
    handler,       \* except clause of process_unread_emails that ran
    result,        \* how process_unread_emails / main ended
    cl_pc,         \* concurrent savers: position inside save_to_database
    cl_dict,       \* concurrent savers: email_dict being written
    cl_match,      \* concurrent savers: _id matched by the filter, 0 for none
    utcoffset      \* offset from UTC of the local zone the process runs in

vars == <<pc, db_ready, index_unique, store, attempt, waits, mail,
          email_ids, msg, email_data, email_dict, calls, handler, result,
          cl_pc, cl_dict, cl_match, utcoffset>>

sweepVars == <<pc, db_ready, attempt, waits, mail, email_ids, msg,
               email_data, email_dict, calls, handler, result>>
clientVars == <<cl_pc, cl_dict, cl_match>>

----------------------------------------------------------------------------
\* Bounds of the model.

\* longest list of unread ids a search returns
MaxIds == 2
\* largest wall-clock reading
MaxClock == 2

\* Program constants.
\* one attempt more than line 54 allows
max_retries_plus_one == 3 + 1
max_retries == 3

\* Readings of the wall clock (time.time(), datetime.now()).  The wall clock
\* is an input: two readings may coincide and a later reading may be smaller.
Instants == 1..MaxClock

----------------------------------------------------------------------------
\* Messages.  A header that is absent is the empty sequence.
\*   message_id : <<>> (absent) or <<header value>>; the value may be ""
\*   date       : <<>> (absent), <<secs, tzoffset>> or <<0>> (unparseable)
\*   subject    : <<>> (absent) or a sequence of encoded words
\*                <<payload, charset>>; charset "" is a word with none declared
\*   from       : <<>> (absent) or <<display name, address>>
\*   raw8bit    : the headers whose line holds a raw non-ASCII byte; for
\*                these email_message.get returns a Header object, not a str

Absent == <<>>

\* Payloads of encoded words are written in their q encoding: ASCII text
\* stands for itself and Byte_E9 is the single byte 0xE9, which is the
\* character Char_E9 in latin-1 and no valid sequence in utf-8.
Byte_E9 == "=E9"
Char_E9 == "(e-acute)"

\* the last instant a datetime can hold (the end of year 9999), on the
\* scale of the model's instants
datetime_max == 9

\* The zone of the process: 0 for UTC, 1 for a zone one unit east of UTC.
\* datetime.fromtimestamp gives the naive local time, which is utcoffset
\* later than the instant.
UtcOffsets == {0, 1}

Messages ==
    { [message_id |-> <<"<a>">>, date |-> <<1, 0>>, raw8bit |-> {},
       subject |-> << <<"Hi", "utf-8">> >>, from |-> <<"Ann", "ann@x">>],
      [message_id |-> <<"<a>">>, date |-> <<2, 0>>, raw8bit |-> {},
       subject |-> <<>>, from |-> <<"Bob", "bob@x">>],
      [message_id |-> Absent, date |-> <<1, 0>>, raw8bit |-> {},
       subject |-> << <<"Hi", "utf-8">> >>, from |-> <<"Ann", "ann@x">>],
      [message_id |-> Absent, date |-> <<2, 1>>, raw8bit |-> {},
       subject |-> << <<"Re", "">>, <<Byte_E9, "latin-1">> >>, from |-> <<"Bob", "bob@x">>],
      [message_id |-> Absent, date |-> <<0>>, raw8bit |-> {},
       subject |-> <<>>, from |-> <<>>],
      [message_id |-> <<"<b>">>, date |-> <<1, 0>>, raw8bit |-> {},
       subject |-> << <<"Hi", "x-unknown">> >>, from |-> <<"Ann", "ann@x">>],
      [message_id |-> <<"">>, date |-> <<1, 0>>, raw8bit |-> {},
       subject |-> << <<"Hi", "utf-8">> >>, from |-> <<"Ann", "ann@x">>],
      [message_id |-> <<"<c>">>, date |-> <<1, 0>>, raw8bit |-> {},
       subject |-> << <<"Re", "latin-1">>, <<Byte_E9, "utf-8">> >>, from |-> <<"Ann", "ann@x">>],
      [message_id |-> <<"<c>">>, date |-> <<1, 0>>, raw8bit |-> {"from"},
       subject |-> <<>>, from |-> <<"Ann", "ann@x">>],
      [message_id |-> <<"<c>">>, date |-> <<1, 0>>, raw8bit |-> {"date"},
       subject |-> <<>>, from |-> <<>>],
      [message_id |-> <<"<c>">>, date |-> <<datetime_max + 1, 1>>, raw8bit |-> {},
       subject |-> <<>>, from |-> <<>>],
      [message_id |-> <<"<c>">>, date |-> <<datetime_max, 0 - 1>>, raw8bit |-> {},
       subject |-> <<>>, from |-> <<>>],
      [message_id |-> <<"<e>">>, date |-> <<1, 0>>, raw8bit |-> {"message-id"},
       subject |-> <<>>, from |-> <<"Ann", "ann@x">>],
      [message_id |-> <<"<d>">>, date |-> <<datetime_max - 1, 0>>, raw8bit |-> {},
       subject |-> << <<"Hi", "utf-8">> >>, from |-> <<"Ann", "ann@x">>] }

KnownCharsets == {"utf-8", "latin-1"}

\* str(t[0], t[1] or 'utf-8') (line 78): <<text>>, or <<>> when it raises,
\* LookupError for a charset Python does not know and UnicodeDecodeError
\* for bytes that are not valid in the charset (the decoding is strict)
str_decode(word) ==
    LET cs == IF word[2] = "" THEN "utf-8" ELSE word[2]
    IN  IF cs \notin KnownCharsets THEN <<>>
        ELSE IF word[1] = Byte_E9
        THEN (IF cs = "latin-1" THEN <<Char_E9>> ELSE <<>>)
        ELSE <<word[1]>>

\* decode_header + join (lines 77-82): each encoded word is decoded with
\* its declared charset, 'utf-8' when none is declared, and the texts are
\* joined in order.  <<>> when the decoding of a word raises.
RECURSIVE decode_subject(_)
decode_subject(words) ==
    IF words = <<>> THEN <<"">>
    ELSE LET text == str_decode(Head(words))
             rest == decode_subject(Tail(words))
         IN  IF text = <<>> \/ rest = <<>> THEN <<>>
             ELSE <<text[1] \o rest[1]>>

\* parsedate_tz: None (here <<>>) for a missing or unparseable header.
parsedate_tz(d) == IF Len(d) = 2 THEN d ELSE <<>>

\* mktime_tz (line 89): <<the seconds of the date tuple less its timezone
\* offset>>, or <<>> when it raises ValueError because the tuple's own
\* year is past 9999
mktime_tz(t) == IF t[1] <= datetime_max THEN <<t[1] - t[2]>> ELSE <<>>

\* email_message.get of a header line that holds a raw non-ASCII byte: a
\* Header object, not a str; written here by its text
HeaderObject(value) == "Header(" \o value \o ")"

\* datetime.fromtimestamp (lines 88-90): <<instant>>, or <<>> when it
\* raises ValueError because the local time of the instant is past year
\* 9999
fromtimestamp(t) == IF t + utcoffset <= datetime_max THEN <<t>> ELSE <<>>

\* timestamp.timestamp() of a naive local datetime (line 93): <<instant>>,
\* or <<>> when it raises ValueError: the conversion first reads the local
\* time as if it were UTC and takes the local time of that, one more
\* utcoffset later, which may be past year 9999
datetime_timestamp(t) ==
    IF t + utcoffset + utcoffset <= datetime_max THEN <<t>> ELSE <<>>

\* f"NO_ID_{timestamp.timestamp()}"
no_id(timestamp) == "NO_ID_" \o ToString(datetime_timestamp(timestamp)[1])

\* the default of line 93 is computed whether or not the message has a
\* message-id header: it raises when timestamp.timestamp() does
DefaultIdComputed(timestamp) == datetime_timestamp(timestamp) # <<>>

\* lines 75-87 of process_email run without raising: the subject decodes,
\* and neither the from nor the date header is a Header object, on which
\* parseaddr and parsedate_tz raise
HeadersRead(m) ==
    /\ "subject" \notin m.raw8bit
    /\ m.subject # <<>> => decode_subject(m.subject) # <<>>
    /\ "from" \notin m.raw8bit
    /\ "date" \notin m.raw8bit

\* process_email with the generated id computed from the date tuple's own
\* seconds, the timezone offset left out, instead of from the timestamp
process_email_IdFromRawDate(m, now) ==
    LET subj       == IF m.subject = <<>> THEN "[No subject]"
                      ELSE decode_subject(m.subject)[1]
        sender     == IF m.from = <<>> THEN "" ELSE m.from[2]
        date_tuple == parsedate_tz(m.date)
        seconds    == IF date_tuple # <<>> THEN mktime_tz(date_tuple) ELSE <<now>>
        timestamp  == IF seconds = <<>> THEN <<>> ELSE fromtimestamp(seconds[1])
    IN  IF ~HeadersRead(m) \/ timestamp = <<>> THEN <<>>
        ELSE IF ~DefaultIdComputed(timestamp[1]) THEN <<>>
        ELSE << [message_id |-> IF "message-id" \in m.raw8bit
                                THEN HeaderObject(m.message_id[1])
                                ELSE IF m.message_id # Absent THEN m.message_id[1]
                                ELSE no_id(IF date_tuple # <<>> THEN date_tuple[1]
                                           ELSE now),
                 sender     |-> sender,
                 subject    |-> subj,
                 timestamp  |-> timestamp[1]] >>

\* process_email(email_message) with `now` the reading time.time() gives if
\* it is taken.  <<record>>, or <<>> for None: the try of lines 74-103
\* turns every exception of lines 75-97 into None.
process_email(m, now) ==
    LET subj       == IF m.subject = <<>> THEN "[No subject]"
                      ELSE decode_subject(m.subject)[1]
        sender     == IF m.from = <<>> THEN "" ELSE m.from[2]
        date_tuple == parsedate_tz(m.date)
        seconds    == IF date_tuple # <<>> THEN mktime_tz(date_tuple) ELSE <<now>>
        timestamp  == IF seconds = <<>> THEN <<>> ELSE fromtimestamp(seconds[1])
    IN  IF ~HeadersRead(m) \/ timestamp = <<>> THEN <<>>
        ELSE IF ~DefaultIdComputed(timestamp[1]) THEN <<>>
        ELSE << [message_id |-> IF "message-id" \in m.raw8bit
                                THEN HeaderObject(m.message_id[1])
                                ELSE IF m.message_id # Absent THEN m.message_id[1]
                                ELSE no_id(timestamp[1]),
                 sender     |-> sender,
                 subject    |-> subj,
                 timestamp  |-> timestamp[1]] >>

\* process_email reads the clock only when it gets as far as line 89 and
\* the date header gives no date.
ReadsClock(m) == HeadersRead(m) /\ parsedate_tz(m.date) = <<>>

----------------------------------------------------------------------------
\* The collection.

\* documents the filter {'message_id': key} matches
Matched(coll, key) == {d \in coll : d.message_id = key}

\* the document update_one picks among the matched ones: the oldest
FirstMatch(coll, key) ==
    CHOOSE d \in Matched(coll, key) : \A e \in Matched(coll, key) : d.id <= e.id

\* {'$set': doc} on the document with _id = id
ApplySet(coll, id, doc) ==
    {IF d.id = id THEN [doc EXCEPT !.id = id] ELSE d : d \in coll}

\* the index created without unique=True
IndexAllows_NotUnique(coll, unique, key) == TRUE

\* whether the unique index on message_id lets a document with this key in
IndexAllows(coll, unique, key) == ~unique \/ Matched(coll, key) = {}

\* the insert half of an upsert
InsertDoc(coll, doc) ==
    coll \cup {[doc EXCEPT !.id = Cardinality(coll) + 1]}

\* email_dict of save_to_database, lines 109-115 (id is filled by the store)
EmailDict(rec, now) ==
    [message_id   |-> rec.message_id,
     sender       |-> rec.sender,
     subject      |-> rec.subject,
     timestamp    |-> rec.timestamp,
     processed_at |-> now,
     id           |-> 0]

\* the update written with $setOnInsert: a matched document is left as it is
update_one_SetOnInsert(coll, key, doc) ==
    IF Matched(coll, key) # {} THEN coll ELSE InsertDoc(coll, doc)

\* collection.update_one(filter, {'$set': doc}, upsert=True), run
\* without interleaving
update_one(coll, key, doc) ==
    IF Matched(coll, key) # {}
    THEN ApplySet(coll, FirstMatch(coll, key).id, doc)
    ELSE InsertDoc(coll, doc)

----------------------------------------------------------------------------
\* the processors saving at once in SpecStore
Clients == {"p", "q"}

Init ==
    /\ pc = "main"
    /\ db_ready = FALSE
    /\ index_unique = FALSE
    /\ store = {}
    /\ attempt = 0
    /\ waits = 0
    /\ mail = FALSE
    /\ email_ids = <<>>
    /\ msg = <<>>
    /\ email_data = <<>>
    /\ email_dict = <<>>
    /\ calls = <<>>
    /\ handler = "none"
    /\ result = "running"
    /\ cl_pc = [c \in Clients |-> "idle"]
    /\ cl_dict = [c \in Clients |-> <<>>]
    /\ cl_match = [c \in Clients |-> 0]
    /\ utcoffset \in UtcOffsets

\* one entry of the call log: the operation, the unread id it is for (the
\* attempt number of a connect, the number of ids a search lists), its
\* outcome, and the message_id of the record a normalize or a save handles
Call(name, id, outcome, key) == [op |-> name, id |-> id, out |-> outcome, key |-> key]

Logged(name, id, outcome, key) == Append(calls, Call(name, id, outcome, key))

\* the for loop that asks for one more id after the last
NextId_PastTheEnd(ids) == "fetch"

\* the for loop of process_unread_emails moves to the next id, or ends
NextId(ids) == IF Tail(ids) = <<>> THEN "finally" ELSE "fetch"

\* the except clause of process_unread_emails that takes what a call on the
\* session raised: ConnectionError and its subclasses (ConnectionResetError,
\* BrokenPipeError, ...) go to the clause of line 152, the rest to that of
\* line 154
Handler(outcome) == IF outcome = "ConnectionError" THEN "ConnectionError" ELSE "Exception"

\* _setup_database with the raise of its except clauses left out: main goes
\* on to the sweep
SetupDatabase_ErrorSwallowed ==
    /\ pc = "main"
    /\ \E outcome \in {"ok", "fail_client", "fail_index", "fail_ping"} :
         /\ db_ready' = (outcome # "fail_client")
         /\ index_unique' = (index_unique \/ outcome \in {"ok", "fail_ping"})
         /\ pc' = "connect"
         /\ result' = IF outcome = "ok" THEN "running" ELSE "setup_failed"
    /\ UNCHANGED <<store, attempt, waits, mail, email_ids, msg, email_data,
                   email_dict, calls, handler, clientVars, utcoffset>>

\* _setup_database, called by main (line 163).  A failure is logged and
\* re-raised, and caught by main's except Exception (line 165).
SetupDatabase ==
    /\ pc = "main"
    /\ \E outcome \in {"ok", "fail_client", "fail_index", "fail_ping"} :
         /\ db_ready' = (outcome # "fail_client")
         /\ index_unique' = (index_unique \/ outcome \in {"ok", "fail_ping"})
         /\ pc' = IF outcome = "ok" THEN "connect" ELSE "exit"
         /\ result' = IF outcome = "ok" THEN "running" ELSE "setup_failed"
    /\ UNCHANGED <<store, attempt, waits, mail, email_ids, msg, email_data,
                   email_dict, calls, handler, clientVars, utcoffset>>

\* the retry loop with the sleep taken after every failed attempt, the last
\* one included
ConnectAttempt_SleepAlways ==
    /\ pc = "connect"
    /\ attempt < max_retries
    /\ \E outcome \in {"ok", "error"} :
         /\ calls' = Logged("connect", attempt + 1, outcome, "")
         /\ IF outcome = "ok"
            THEN /\ mail' = TRUE
                 /\ pc' = "select"
                 /\ UNCHANGED <<attempt, waits, handler>>
            ELSE IF attempt < max_retries - 1
            THEN /\ waits' = waits + 1
                 /\ attempt' = attempt + 1
                 /\ UNCHANGED <<pc, mail, handler>>
            ELSE /\ waits' = waits + 1
                 /\ handler' = "ConnectionError"
                 /\ pc' = "finally"
                 /\ UNCHANGED <<attempt, mail>>
    /\ UNCHANGED <<db_ready, index_unique, store, email_ids, msg,
                   email_data, email_dict, result, clientVars, utcoffset>>

\* one iteration of the retry loop of connect_to_email_server (lines 56-70).
\* "error" is imaplib.IMAP4.error or any other exception of IMAP4_SSL or
\* login: the two except clauses (lines 62-65) do the same, they log.
ConnectAttempt ==
    /\ pc = "connect"
    /\ attempt < max_retries
    /\ \E outcome \in {"ok", "error"} :
         /\ calls' = Logged("connect", attempt + 1, outcome, "")
         /\ IF outcome = "ok"
            THEN /\ mail' = TRUE
                 /\ pc' = "select"
                 /\ UNCHANGED <<attempt, waits, handler>>
            ELSE IF attempt < max_retries - 1
            THEN /\ waits' = waits + 1
                 /\ attempt' = attempt + 1
                 /\ UNCHANGED <<pc, mail, handler>>
            ELSE \* raise ConnectionError, caught at line 152
                 /\ handler' = "ConnectionError"
                 /\ pc' = "finally"
                 /\ UNCHANGED <<attempt, waits, mail>>
    /\ UNCHANGED <<db_ready, index_unique, store, email_ids, msg,
                   email_data, email_dict, result, clientVars, utcoffset>>

\* mail.select("inbox") (line 130): the status it returns is not looked at;
\* what it raises is "ConnectionError" (the builtin or a subclass) or "raise"
\* (anything else)
Select ==
    /\ pc = "select"
    /\ \E outcome \in {"OK", "NO", "raise", "ConnectionError"} :
         /\ calls' = Logged("select", 0, outcome, "")
         /\ IF outcome \in {"raise", "ConnectionError"}
            THEN handler' = Handler(outcome) /\ pc' = "finally"
            ELSE pc' = "search" /\ UNCHANGED handler
    /\ UNCHANGED <<db_ready, index_unique, store, attempt, waits, mail,
                   email_ids, msg, email_data, email_dict, result, clientVars, utcoffset>>

\* the search whose empty answer b'' is split into one empty id, which the
\* loop then fetches
Search_EmptyIdFetched ==
    /\ pc = "search"
    /\ \E outcome \in {"OK", "NO", "raise", "ConnectionError"}, n \in 0..MaxIds,
          untagged \in BOOLEAN :
         /\ outcome = "OK" \/ n = 0
         /\ untagged \/ (outcome = "OK" /\ n = 0)
         /\ calls' = Logged("search", n, outcome, IF untagged THEN "" ELSE "None")
         /\ IF outcome \in {"raise", "ConnectionError"}
            THEN /\ handler' = Handler(outcome)
                 /\ pc' = "finally"
                 /\ UNCHANGED email_ids
            ELSE IF outcome = "NO"
            THEN /\ pc' = "finally"
                 /\ UNCHANGED <<email_ids, handler>>
            ELSE IF ~untagged
            THEN \* messages is [None]: messages[0].split() (line 136) raises
                 \* AttributeError, caught at line 154
                 /\ handler' = "Exception"
                 /\ pc' = "finally"
                 /\ UNCHANGED email_ids
            ELSE /\ email_ids' = IF n = 0 THEN <<0>> ELSE [i \in 1..n |-> i]
                 /\ pc' = "fetch"
                 /\ UNCHANGED handler
    /\ UNCHANGED <<db_ready, index_unique, store, attempt, waits, mail,
                   msg, email_data, email_dict, result, clientVars, utcoffset>>

\* mail.search(None, 'UNSEEN') and the two early returns (lines 131-139)
Search ==
    /\ pc = "search"
    /\ \E outcome \in {"OK", "NO", "raise", "ConnectionError"}, n \in 0..MaxIds,
          untagged \in BOOLEAN :
         /\ outcome = "OK" \/ n = 0
         /\ untagged \/ (outcome = "OK" /\ n = 0)
         /\ calls' = Logged("search", n, outcome, IF untagged THEN "" ELSE "None")
         /\ IF outcome \in {"raise", "ConnectionError"}
            THEN /\ handler' = Handler(outcome)
                 /\ pc' = "finally"
                 /\ UNCHANGED email_ids
            ELSE IF outcome = "NO"
            THEN /\ pc' = "finally"
                 /\ UNCHANGED <<email_ids, handler>>
            ELSE IF ~untagged
            THEN \* messages is [None]: messages[0].split() (line 136) raises
                 \* AttributeError, caught at line 154
                 /\ handler' = "Exception"
                 /\ pc' = "finally"
                 /\ UNCHANGED email_ids
            ELSE /\ email_ids' = [i \in 1..n |-> i]
                 /\ pc' = IF n = 0 THEN "finally" ELSE "fetch"
                 /\ UNCHANGED handler
    /\ UNCHANGED <<db_ready, index_unique, store, attempt, waits, mail,
                   msg, email_data, email_dict, result, clientVars, utcoffset>>

\* the fetch with break in the place of continue
Fetch_BreakOnNo ==
    /\ pc = "fetch"
    /\ email_ids # <<>>
    /\ \E outcome \in {"OK", "NO", "raise", "ConnectionError"}, payload \in {<<m>> : m \in Messages} \cup {<<>>} :
         /\ calls' = Logged("fetch", Head(email_ids), outcome, "")
         /\ IF outcome \in {"raise", "ConnectionError"}
            THEN /\ handler' = Handler(outcome)
                 /\ pc' = "finally"
                 /\ UNCHANGED <<email_ids, msg>>
            ELSE IF outcome = "NO"
            THEN /\ pc' = "finally"
                 /\ UNCHANGED <<email_ids, msg, handler>>
            ELSE /\ msg' = payload
                 /\ pc' = "normalize"
                 /\ UNCHANGED <<email_ids, handler>>
    /\ UNCHANGED <<db_ready, index_unique, store, attempt, waits, mail,
                   email_data, email_dict, result, clientVars, utcoffset>>

\* the fetch with the continue of line 145 left out: the loop body goes on
\* with whatever the non-OK answer carried
Fetch_NoContinue ==
    /\ pc = "fetch"
    /\ email_ids # <<>>
    /\ \E outcome \in {"OK", "NO", "raise", "ConnectionError"}, payload \in {<<m>> : m \in Messages} \cup {<<>>} :
         /\ calls' = Logged("fetch", Head(email_ids), outcome, "")
         /\ IF outcome \in {"raise", "ConnectionError"}
            THEN /\ handler' = Handler(outcome)
                 /\ pc' = "finally"
                 /\ UNCHANGED <<email_ids, msg>>
            ELSE /\ msg' = payload
                 /\ pc' = "normalize"
                 /\ UNCHANGED <<email_ids, handler>>
    /\ UNCHANGED <<db_ready, index_unique, store, attempt, waits, mail,
                   email_data, email_dict, result, clientVars, utcoffset>>

\* mail.fetch(email_id, '(RFC822)') (lines 142-145).  "OK" comes with a
\* message, or with a payload that holds none (<<>>).
Fetch ==
    /\ pc = "fetch"
    /\ email_ids # <<>>
    /\ \E outcome \in {"OK", "NO", "raise", "ConnectionError"}, payload \in {<<m>> : m \in Messages} \cup {<<>>} :
         /\ calls' = Logged("fetch", Head(email_ids), outcome, "")
         /\ IF outcome \in {"raise", "ConnectionError"}
            THEN /\ handler' = Handler(outcome)
                 /\ pc' = "finally"
                 /\ UNCHANGED <<email_ids, msg>>
            ELSE IF outcome = "NO"
            THEN /\ email_ids' = Tail(email_ids)
                 /\ pc' = NextId(email_ids)
                 /\ UNCHANGED <<msg, handler>>
            ELSE /\ msg' = payload
                 /\ pc' = "normalize"
                 /\ UNCHANGED <<email_ids, handler>>
    /\ UNCHANGED <<db_ready, index_unique, store, attempt, waits, mail,
                   email_data, email_dict, result, clientVars, utcoffset>>

\* email.message_from_bytes(msg[0][1]) and process_email (lines 147-149)
Normalize ==
    /\ pc = "normalize"
    /\ IF msg = <<>>
       THEN \* msg[0][1] raises outside process_email's try
            /\ calls' = Logged("normalize", Head(email_ids), "raise", "")
            /\ handler' = "Exception"
            /\ pc' = "finally"
            /\ UNCHANGED <<email_ids, email_data>>
       ELSE \E now \in Instants :
            /\ ReadsClock(msg[1]) \/ now = 1
            /\ email_data' = process_email(msg[1], now)
            /\ calls' = IF email_data' = <<>>
                        THEN Logged("normalize", Head(email_ids), "None", "")
                        ELSE Logged("normalize", Head(email_ids), "record",
                                    email_data'[1].message_id)
            /\ IF email_data' = <<>>
               THEN email_ids' = Tail(email_ids) /\ pc' = NextId(email_ids)
               ELSE pc' = "save" /\ UNCHANGED email_ids
            /\ UNCHANGED handler
    /\ msg' = <<>>
    /\ UNCHANGED <<db_ready, index_unique, store, attempt, waits, mail,
                   email_dict, result, clientVars, utcoffset>>

\* what update_one can do with the record (line 113): a record whose
\* message_id is a Header object cannot be encoded for the server, and
\* update_one raises InvalidDocument, which is no PyMongoError: line 122
\* does not catch it and it reaches line 154 unlogged by save_to_database
SaveOutcomes(record) ==
    IF \E m \in Messages : /\ "message-id" \in m.raw8bit
                            /\ record.message_id = HeaderObject(m.message_id[1])
    THEN {"PyMongoError", "InvalidDocument"}
    ELSE {"ok", "PyMongoError"}

\* the save with its error swallowed inside the loop: the sweep goes on
Save_ContinueOnError ==
    /\ pc = "save"
    /\ \E outcome \in SaveOutcomes(email_data[1]), now \in Instants :
         /\ calls' = Logged("save", Head(email_ids), outcome,
                            email_data[1].message_id)
         /\ outcome = "ok" \/ now = 1
         /\ email_dict' = IF outcome = "ok" THEN <<EmailDict(email_data[1], now)>>
                          ELSE email_dict
         /\ store' = IF outcome = "ok"
                     THEN update_one(store, email_data[1].message_id, email_dict'[1])
                     ELSE store
         /\ email_ids' = Tail(email_ids)
         /\ pc' = NextId(email_ids)
         /\ UNCHANGED handler
    /\ UNCHANGED <<db_ready, index_unique, attempt, waits, mail, msg,
                   email_data, result, clientVars, utcoffset>>

\* the save whose failure undoes what the sweep stored so far
Save_RollbackOnError ==
    /\ pc = "save"
    /\ \E outcome \in SaveOutcomes(email_data[1]), now \in Instants :
         /\ calls' = Logged("save", Head(email_ids), outcome,
                            email_data[1].message_id)
         /\ IF outcome = "ok"
            THEN /\ email_dict' = <<EmailDict(email_data[1], now)>>
                 /\ store' = update_one(store, email_data[1].message_id,
                                        email_dict'[1])
                 /\ email_ids' = Tail(email_ids)
                 /\ pc' = NextId(email_ids)
                 /\ UNCHANGED handler
            ELSE /\ now = 1
                 /\ store' = {}
                 /\ handler' = "Exception"
                 /\ pc' = "finally"
                 /\ UNCHANGED <<email_ids, email_dict>>
    /\ UNCHANGED <<db_ready, index_unique, attempt, waits, mail, msg,
                   email_data, result, clientVars, utcoffset>>

\* save_to_database(email_data) (lines 105-124, called at line 150)
Save ==
    /\ pc = "save"
    /\ \E outcome \in SaveOutcomes(email_data[1]), now \in Instants :
         /\ calls' = Logged("save", Head(email_ids), outcome,
                            email_data[1].message_id)
         /\ IF outcome = "ok"
            THEN /\ email_dict' = <<EmailDict(email_data[1], now)>>
                 /\ store' = update_one(store, email_data[1].message_id,
                                        email_dict'[1])
                 /\ email_ids' = Tail(email_ids)
                 /\ pc' = NextId(email_ids)
                 /\ UNCHANGED handler
            ELSE \* raised out of save_to_database, caught at line 154
                 /\ now = 1
                 /\ handler' = "Exception"
                 /\ pc' = "finally"
                 /\ UNCHANGED <<store, email_ids, email_dict>>
    /\ UNCHANGED <<db_ready, index_unique, attempt, waits, mail, msg,
                   email_data, result, clientVars, utcoffset>>

\* the logout placed at the end of the try body instead of in finally
Finally_OnlyOnSuccess ==
    /\ pc = "finally"
    /\ IF mail /\ handler = "none"
       THEN \E outcome \in {"ok", "raise"} :
            /\ calls' = Logged("logout", 0, outcome, "")
            /\ result' = IF outcome = "ok" THEN "returned" ELSE "raised"
       ELSE /\ result' = "returned"
            /\ UNCHANGED calls
    /\ pc' = "exit"
    /\ UNCHANGED <<db_ready, index_unique, store, attempt, waits, mail,
                   email_ids, msg, email_data, email_dict, handler, clientVars, utcoffset>>

\* the finally clause without the 'mail' in locals() guard: with no session
\* the name mail is unbound and the logout raises
Finally_NoGuard ==
    /\ pc = "finally"
    /\ IF mail
       THEN \E outcome \in {"ok", "raise"} :
            /\ calls' = Logged("logout", 0, outcome, "")
            /\ result' = IF outcome = "ok" THEN "returned" ELSE "raised"
       ELSE /\ result' = "raised"
            /\ UNCHANGED calls
    /\ pc' = "exit"
    /\ UNCHANGED <<db_ready, index_unique, store, attempt, waits, mail,
                   email_ids, msg, email_data, email_dict, handler, clientVars, utcoffset>>

\* the finally clause (lines 156-158) and the return to main
Finally ==
    /\ pc = "finally"
    /\ IF mail
       THEN \E outcome \in {"ok", "raise"} :
            /\ calls' = Logged("logout", 0, outcome, "")
            /\ result' = IF outcome = "ok" THEN "returned" ELSE "raised"
       ELSE /\ result' = "returned"
            /\ UNCHANGED calls
    /\ pc' = "exit"
    /\ UNCHANGED <<db_ready, index_unique, store, attempt, waits, mail,
                   email_ids, msg, email_data, email_dict, handler, clientVars, utcoffset>>

Next ==
    \/ SetupDatabase
    \/ ConnectAttempt
    \/ Select
    \/ Search
    \/ Fetch
    \/ Normalize
    \/ Save
    \/ Finally

Spec == Init /\ [][Next]_vars

\* main under the assumption that every call it makes returns or raises:
\* the single thread then always takes its next step
FairSpec == Spec /\ WF_vars(Next)

----------------------------------------------------------------------------
\* save_to_database called by several processors at once on one collection.
\* The server runs update_one in two steps, the match and the write, and
\* other writers may come in between.

\* the records the savers save: those process_email makes of the messages
\* that carry a message-id header and a date
Records ==
    {process_email(m, 1)[1] :
        m \in {x \in Messages : /\ x.message_id # Absent
                                /\ x.raw8bit = {}
                                /\ ~ReadsClock(x)
                                /\ process_email(x, 1) # <<>>}}

InitStore ==
    /\ pc = "savers"
    /\ db_ready = TRUE
    /\ index_unique = TRUE
    /\ store = {}
    /\ attempt = 0
    /\ waits = 0
    /\ mail = FALSE
    /\ email_ids = <<>>
    /\ msg = <<>>
    /\ email_data = <<>>
    /\ email_dict = <<>>
    /\ calls = <<>>
    /\ handler = "none"
    /\ result = "running"
    /\ cl_pc = [c \in Clients |-> "idle"]
    /\ cl_dict = [c \in Clients |-> <<>>]
    /\ cl_match = [c \in Clients |-> 0]
    /\ utcoffset \in UtcOffsets

\* save_to_database builds email_dict (lines 108-115)
SaverCall(c) ==
    /\ pc = "savers"
    /\ cl_pc[c] = "idle"
    /\ \E rec \in Records, now \in Instants :
         cl_dict' = [cl_dict EXCEPT ![c] = <<EmailDict(rec, now)>>]
    /\ cl_pc' = [cl_pc EXCEPT ![c] = "match"]
    /\ UNCHANGED <<sweepVars, utcoffset, index_unique, store, cl_match>>

\* update_one, first step: the filter {'message_id': ...} is matched
SaverMatch(c) ==
    /\ cl_pc[c] = "match"
    /\ LET key == cl_dict[c][1].message_id
       IN  cl_match' = [cl_match EXCEPT ![c] =
               IF Matched(store, key) # {} THEN FirstMatch(store, key).id ELSE 0]
    /\ cl_pc' = [cl_pc EXCEPT ![c] = "write"]
    /\ UNCHANGED <<sweepVars, utcoffset, index_unique, store, cl_dict>>

\* update_one, second step: $set on the matched document, or the insert of
\* the upsert, which the unique index of line 42 may refuse; the refused
\* upsert is retried as an update or raised as a PyMongoError (line 122)
SaverWrite(c) ==
    /\ cl_pc[c] = "write"
    /\ LET d   == cl_dict[c][1]
           key == d.message_id
       IN  IF cl_match[c] # 0
           THEN store' = ApplySet(store, cl_match[c], d)
           ELSE IF IndexAllows(store, index_unique, key)
           THEN store' = InsertDoc(store, d)
           ELSE \/ store' = ApplySet(store, FirstMatch(store, key).id, d)
                \/ store' = store
    /\ cl_pc' = [cl_pc EXCEPT ![c] = "idle"]
    /\ cl_match' = [cl_match EXCEPT ![c] = 0]
    /\ UNCHANGED <<sweepVars, utcoffset, index_unique, cl_dict>>

NextStore == \E c \in Clients : SaverCall(c) \/ SaverMatch(c) \/ SaverWrite(c)

SpecStore == InitStore /\ [][NextStore]_vars

----------------------------------------------------------------------------
\* Properties.

\* positions of the call log that hold a call of the operation
Ops(name) == {i \in DOMAIN calls : calls[i].op = name}

NumCalls(name) == Cardinality(Ops(name))

\* connect_to_email_server returned a session
ConnectReturned == \E i \in Ops("connect") : calls[i].out = "ok"

\* the first k attempts to connect have been made and all failed
FirstFailed(k) ==
    /\ Len(calls) >= k
    /\ \A i \in 1..k : calls[i].op = "connect" /\ calls[i].out # "ok"

\* C1: whatever select, search, fetch, normalize and save do (OK, non-OK or
\* an exception), logout is called exactly once by the end of the sweep if
\* connect_to_email_server returned a session, and never if it did not.
C1_CloseExactlyOnce ==
    /\ NumCalls("logout") <= 1
    /\ pc = "exit" => NumCalls("logout") = IF ConnectReturned THEN 1 ELSE 0

\* a sweep that ended through the except clause after a failed save, closed once
C1_Witness ==
    /\ pc = "exit"
    /\ \E i \in Ops("save") : calls[i].out = "PyMongoError"
    /\ NumCalls("logout") = 1

\* C2: connect_to_email_server makes at most 3 attempts; when the first k
\* attempts (k = 0, 1, 2) fail and attempt k+1 succeeds, the session is
\* returned without an exception after exactly k+1 attempts and k waits.
C2_RetryThenSucceed ==
    /\ NumCalls("connect") <= 3
    /\ \A k \in 0..2 :
         (FirstFailed(k) /\ Len(calls) > k /\ calls[k + 1].op = "connect"
                         /\ calls[k + 1].out = "ok")
         => /\ mail
            /\ handler = "ConnectionError" =>
                 \E i \in DOMAIN calls :
                     calls[i].op # "connect" /\ calls[i].out = "ConnectionError"
            /\ NumCalls("connect") = k + 1
            /\ waits = k

\* fail, fail, succeed: three attempts and two waits
C2_Witness ==
    /\ FirstFailed(2)
    /\ Len(calls) = 3
    /\ calls[3].op = "connect" /\ calls[3].out = "ok"
    /\ mail
    /\ waits = 2

\* C3: when all three attempts fail, the operation ends with the terminal
\* ConnectionError (caught by the except ConnectionError clause), no session
\* is returned, no fourth attempt is made and exactly two waits happened.
C3_ThreeFailures ==
    FirstFailed(3) =>
        /\ handler = "ConnectionError"
        /\ ~mail
        /\ ~ConnectReturned
        /\ NumCalls("connect") = 3
        /\ waits = 2
        /\ pc \in {"finally", "exit"}

\* three failed attempts with two waits between them, and the sweep over
C3_Witness ==
    /\ FirstFailed(3)
    /\ Len(calls) = 3
    /\ waits = 2
    /\ pc = "exit"

\* the step is a save_to_database call that returned normally
SaveReturns ==
    /\ pc = "save"
    /\ Len(calls') = Len(calls) + 1
    /\ calls'[Len(calls')].op = "save"
    /\ calls'[Len(calls')].out = "ok"

\* the record being saved has the message_id of a document saved before
SavedBefore == Matched(store, email_data[1].message_id) # {}

\* the stored documents with the record's message_id are one document, which
\* carries the record's fields and the processed_at the save just read
OneDocOfRecord(coll, rec, dict) ==
    /\ Cardinality(Matched(coll, rec.message_id)) = 1
    /\ \A d \in Matched(coll, rec.message_id) :
         /\ d.sender = rec.sender
         /\ d.subject = rec.subject
         /\ d.timestamp = rec.timestamp
         /\ d.processed_at = dict.processed_at

\* C4, as stated: a second save with the same message_id leaves exactly one
\* document with that message_id, with the fields of the second record and
\* the processed_at of the second save, which is later than the first's.
C4_Original ==
    [][(SaveReturns /\ SavedBefore) =>
          /\ OneDocOfRecord(store', email_data[1], email_dict'[1])
          /\ \A old \in Matched(store, email_data[1].message_id) :
               \A new \in Matched(store', email_data[1].message_id) :
                 new.processed_at > old.processed_at]_vars

\* C4, amended: a second save with the same message_id leaves exactly one
\* document with that message_id, with the fields of the second record and
\* the processed_at read by the second save in the place of the first's.
C4_UpsertOverwrites ==
    [][(SaveReturns /\ SavedBefore) =>
          /\ OneDocOfRecord(store', email_data[1], email_dict'[1])
          /\ Cardinality(store') = Cardinality(store)]_vars

\* two saves of records with one message_id and different senders have been
\* made, and the second has returned
C4_Witness ==
    /\ pc \in {"fetch", "finally"}
    /\ \E i, j \in Ops("save") :
         /\ i < j /\ j = Len(calls)
         /\ calls[i].out = "ok" /\ calls[j].out = "ok"
         /\ calls[i].key = calls[j].key
    /\ Cardinality(store) = 1
    /\ \E d \in store : d.sender = "bob@x" /\ d.subject = "[No subject]"
                        /\ d.message_id = "<a>"

\* C5: however save_to_database calls with one message_id are repeated or
\* interleaved, the collection never holds two documents with the same
\* message_id.
C5_NoDuplicateMessageId ==
    \A d, e \in store : d.message_id = e.message_id => d = e

\* a saver that matched nothing is about to insert while another saver's
\* document with the same message_id is already stored
C5_Witness ==
    \E c \in Clients :
        /\ cl_pc[c] = "write"
        /\ cl_match[c] = 0
        /\ Matched(store, cl_dict[c][1].message_id) # {}

\* the number of unread ids the search listed
Listed == IF \E i \in Ops("search") : calls[i].out = "OK"
          THEN calls[CHOOSE i \in Ops("search") : TRUE].id
          ELSE 0

\* calls of save_to_database that raised
FailedSaves == {k \in Ops("save") : calls[k].out # "ok"}

\* C6, as stated: when save_to_database raises, no later unread id is
\* fetched, normalized or saved, the session is closed, and
\* process_unread_emails returns without raising.
C6_Original ==
    \A k \in FailedSaves :
        /\ \A j \in (k + 1)..Len(calls) : calls[j].op = "logout"
        /\ pc = "exit" => NumCalls("logout") = 1 /\ result = "returned"

\* C7, as stated: when save_to_database fails, the outer handler only logs
\* it and the sweep proceeds to the next unread message.
C7_Original ==
    \A k \in FailedSaves :
        (pc = "exit" /\ calls[k].id < Listed) =>
            \E j \in Ops("fetch") : j > k /\ calls[j].id = calls[k].id + 1

\* C7, amended: when save_to_database fails, the outer handler only logs it
\* and the sweep ends: the loop does not advance, and no further unread
\* message is fetched, normalized or saved.
C7_SaveFailureEndsSweep ==
    \A k \in FailedSaves :
        /\ handler = "Exception"
        /\ pc \in {"finally", "exit"}
        /\ email_ids # <<>> /\ Head(email_ids) = calls[k].id
        /\ \A j \in (k + 1)..Len(calls) : calls[j].op = "logout"

\* a save failed with unread ids still to visit, and the sweep is over
C7_Witness ==
    /\ pc = "exit"
    /\ \E k \in FailedSaves : calls[k].id = 1 /\ Listed >= 2

\* C8, as stated: a failure of logout never leaves process_unread_emails.
C8_Original ==
    (pc = "exit" /\ \E k \in Ops("logout") : calls[k].out = "raise")
        => result = "returned"

\* a message_id that process_email generated
IsGenerated(key) == \E t \in 0..datetime_max : key = "NO_ID_" \o ToString(t)

\* C9, as stated: two messages without a message-id header get distinct
\* generated message_ids, and saving both leaves two documents.
C9_Original ==
    /\ \A i, j \in Ops("normalize") :
         (i < j /\ IsGenerated(calls[i].key) /\ IsGenerated(calls[j].key))
             => calls[i].key # calls[j].key
    /\ \A i, j \in Ops("save") :
         (i < j /\ calls[i].out = "ok" /\ calls[j].out = "ok"
                /\ IsGenerated(calls[i].key) /\ IsGenerated(calls[j].key))
             => Cardinality({d \in store : IsGenerated(d.message_id)}) >= 2

\* no fetch, normalize or save of the sweep raised, and no normalize gave None
AllOthersFine ==
    \A k \in Ops("fetch") \cup Ops("normalize") \cup Ops("save") :
        calls[k].out \in {"OK", "NO", "record", "ok"}

\* C10: a non-OK fetch causes no normalize and no save for its id and does
\* not end the loop; in a sweep where some fetches are non-OK and every
\* other id is fetched OK, normalized to a record and saved without error,
\* every other id is saved and its message_id is stored.
C10_NonOkFetchSkips ==
    /\ \A k \in Ops("fetch") :
         calls[k].out = "NO" =>
           /\ \A j \in Ops("normalize") \cup Ops("save") : calls[j].id # calls[k].id
           /\ calls[k].id < Listed =>
                IF k = Len(calls)
                THEN pc = "fetch" /\ Head(email_ids) = calls[k].id + 1
                ELSE calls[k + 1].op = "fetch" /\ calls[k + 1].id = calls[k].id + 1
    /\ (/\ pc \in {"finally", "exit"}
        /\ AllOthersFine
        /\ \E k \in Ops("fetch") : calls[k].out = "NO")
       => \A i \in 1..Listed :
            /\ Cardinality({k \in Ops("fetch") : calls[k].id = i}) = 1
            /\ \/ \E k \in Ops("fetch") : calls[k].id = i /\ calls[k].out = "NO"
               \/ \E k \in Ops("save") :
                    /\ calls[k].id = i
                    /\ calls[k].out = "ok"
                    /\ Matched(store, calls[k].key) # {}

\* the first unread id is fetched non-OK, and the sweep went on to fetch,
\* normalize and save the last one
C10_Witness ==
    /\ pc = "exit"
    /\ Listed >= 2
    /\ AllOthersFine
    /\ \E k \in Ops("fetch") : calls[k].id = 1 /\ calls[k].out = "NO"
    /\ \E k \in Ops("save") : calls[k].id = Listed /\ calls[k].out = "ok"
    /\ Cardinality(store) = Listed - 1

\* the call that follows call k handles the next unread id, or the loop is
\* about to
GoesOnAfter(k) ==
    IF k = Len(calls)
    THEN pc = "fetch" /\ email_ids # <<>> /\ Head(email_ids) = calls[k].id + 1
    ELSE calls[k + 1].op = "fetch" /\ calls[k + 1].id = calls[k].id + 1

\* C11, as stated: whenever turning a fetched message into a record fails
\* for an id, from the raw fetch payload onward, the message is skipped
\* without a save and the sweep continues with the next unread id.
C11_Original ==
    \A k \in Ops("normalize") :
        calls[k].out \in {"None", "raise"} =>
            /\ \A j \in Ops("save") : calls[j].id # calls[k].id
            /\ calls[k].id < Listed => GoesOnAfter(k)

\* C12, as stated: when search returns a non-OK status the sweep ends
\* without raising, with no fetch, normalize or save, and with exactly one
\* logout.
C12_Original ==
    (\E k \in Ops("search") : calls[k].out = "NO") =>
        /\ Ops("fetch") \cup Ops("normalize") \cup Ops("save") = {}
        /\ pc \in {"finally", "exit"}
        /\ pc = "exit" => NumCalls("logout") = 1 /\ result = "returned"

\* C13: when connect_to_email_server ends with the terminal ConnectionError
\* the sweep is over: nothing but the connect attempts was called (no
\* select, search, fetch, save or logout), the store is as it was, and
\* process_unread_emails returns without raising.
C13_ConnectFailureEndsSweep ==
    (handler = "ConnectionError" /\ ~ConnectReturned) =>
        /\ \A i \in DOMAIN calls : calls[i].op = "connect"
        /\ ~mail
        /\ store = {}
        /\ pc \in {"finally", "exit"}
        /\ pc = "exit" => result = "returned"

\* three attempts failed and process_unread_emails has returned
C13_Witness ==
    /\ handler = "ConnectionError"
    /\ ~ConnectReturned
    /\ NumCalls("connect") = 3
    /\ pc = "exit"
    /\ result = "returned"

\* the step is a process_email call that returned a record
NormalizeReturns ==
    /\ pc = "normalize"
    /\ msg # <<>>
    /\ email_data' # <<>>

\* lines 75-90 of process_email give a subject, a sender and a timestamp:
\* no header holds a raw non-ASCII byte, every word of the subject is valid
\* in a charset Python knows, and the local time of the date is within
\* year 9999
FieldsExtracted(m) ==
    /\ m.raw8bit = {}
    /\ \A i \in DOMAIN m.subject :
         \/ m.subject[i][2] = "latin-1"
         \/ m.subject[i][2] \in {"", "utf-8"} /\ m.subject[i][1] # Byte_E9
    /\ Len(m.date) = 2 => /\ m.date[1] <= datetime_max
                           /\ m.date[1] - m.date[2] + utcoffset <= datetime_max

\* the statement of C14 for one step: whenever the other fields of a message can be extracted,
\* process_email returns a record whose message_id is the message-id header
\* as it is when there is one and, when there is none, "NO_ID_" followed by
\* the value of the instant in the record's timestamp field, which is the
\* parsed date header (timezone offset applied) when there is a parseable
\* one and a reading of the clock otherwise.
C14_AsStated ==
    (pc = "normalize" /\ msg # <<>> /\ calls' # calls /\ FieldsExtracted(msg[1])) =>
          /\ email_data' # <<>>
          /\ LET m == msg[1]
                 r == email_data'[1]
             IN  /\ m.message_id # <<>> => r.message_id = m.message_id[1]
                 /\ m.message_id = <<>> =>
                        r.message_id = "NO_ID_" \o ToString(r.timestamp)
                 /\ IF Len(m.date) = 2
                    THEN r.timestamp = m.date[1] - m.date[2]
                    ELSE r.timestamp \in Instants

\* C14, as stated: process_email uses the message-id header as it is
\* whenever there is one, and "NO_ID_" followed by the value of the record's
\* timestamp whenever there is none.
C14_Original == [][C14_AsStated]_vars

\* C14 holds of every record process_email returns for a message whose
\* message-id line, if any, is plain text
C14_IdOfReturnedRecord ==
    [][(NormalizeReturns /\ "message-id" \notin msg[1].raw8bit) =>
          LET m == msg[1]
              r == email_data'[1]
          IN  /\ m.message_id # <<>> => r.message_id = m.message_id[1]
              /\ m.message_id = <<>> =>
                     r.message_id = "NO_ID_" \o ToString(r.timestamp)
              /\ IF Len(m.date) = 2
                 THEN r.timestamp = m.date[1] - m.date[2]
                 ELSE r.timestamp \in Instants]_vars

\* C14 holds where the local zone is UTC
C14_HoldsInUTC ==
    [][utcoffset = 0 => C14_AsStated]_vars

\* the message_ids the collection holds
StoredIds(coll) == {d.message_id : d \in coll}

\* C15: no step of a sweep removes a document: every stored document is
\* still there after the step, under the same message_id, so the set of
\* stored message_ids only grows, also when the step is a fetch,
\* normalization or save that fails.
C15_NothingRemoved ==
    [][/\ StoredIds(store) \subseteq StoredIds(store')
       /\ \A d \in store : \E e \in store' :
              e.id = d.id /\ e.message_id = d.message_id
       /\ Cardinality(store') >= Cardinality(store)]_vars

\* the first id was saved, a step for the second id failed, and the sweep
\* is over with the first id's document stored
C15_Witness ==
    /\ pc = "exit"
    /\ handler = "Exception"
    /\ \E k \in Ops("save") :
         /\ calls[k].id = 1 /\ calls[k].out = "ok"
         /\ calls[k].key \in StoredIds(store)
    /\ \E k \in Ops("fetch") \cup Ops("normalize") \cup Ops("save") :
         calls[k].id = 2 /\ calls[k].out \in {"raise", "PyMongoError"}

\* C16: when search is OK and lists no unread id, the sweep ends with no
\* fetch, no normalize and no save, and logout is called exactly once;
\* so it does too when the server sends no listing at all and line 136
\* raises.
C16_NoUnreadIds ==
    (\E k \in Ops("search") : calls[k].out = "OK" /\ calls[k].id = 0) =>
        /\ Ops("fetch") \cup Ops("normalize") \cup Ops("save") = {}
        /\ email_ids = <<>>
        /\ store = {}
        /\ pc \in {"finally", "exit"}
        /\ pc = "exit" => NumCalls("logout") = 1

\* the search listed nothing and the sweep is over, the session closed
C16_Witness ==
    /\ pc = "exit"
    /\ \E k \in Ops("search") : /\ calls[k].out = "OK" /\ calls[k].id = 0
                                /\ calls[k].key = ""
    /\ NumCalls("logout") = 1
    /\ handler = "none"

\* C17: when _setup_database fails, main catches the re-raised error and
\* returns: no sweep is started (no connect attempt, no fetch, no save).
C17_SetupFailureNoSweep ==
    result = "setup_failed" =>
        /\ pc = "exit"
        /\ calls = <<>>
        /\ attempt = 0 /\ waits = 0
        /\ ~mail
        /\ store = {}

\* the ping of line 43 failed after the index was created, and main is over
C17_Witness ==
    /\ result = "setup_failed"
    /\ pc = "exit"
    /\ index_unique
    /\ db_ready

\* a process_email call on a fetched message
NormalizeCalled == pc = "normalize" /\ msg # <<>> /\ calls' # calls

\* what the claim expects of one encoded word: its text in its charset,
\* a byte sequence that cannot be decoded being replaced by the marker
ReplacementMarker == "(U+FFFD)"

ExpectedText(word) ==
    IF word[1] # Byte_E9 THEN word[1]
    ELSE IF word[2] = "latin-1" THEN Char_E9
    ELSE ReplacementMarker

\* the from and date headers of the message give process_email no trouble:
\* neither holds a raw non-ASCII byte and the date is far enough from the
\* end of year 9999 for lines 88-93
OtherHeadersFine(m) ==
    /\ m.raw8bit = {}
    /\ Len(m.date) = 2 =>
         /\ m.date[1] <= datetime_max
         /\ m.date[1] - m.date[2] + utcoffset + utcoffset <= datetime_max

\* C18, as stated: a subject of several encoded words of charsets Python
\* knows becomes the texts of the words joined in header order, whatever
\* their charsets; an absent subject becomes "[No subject]" and
\* process_email returns a record.
C18_Original ==
    [][NormalizeCalled =>
          LET s == msg[1].subject
          IN  /\ (s = <<>> /\ OtherHeadersFine(msg[1])) =>
                   email_data' # <<>> /\ email_data'[1].subject = "[No subject]"
              /\ (/\ s # <<>>
                  /\ \A i \in DOMAIN s : s[i][2] \in KnownCharsets \cup {""}
                  /\ OtherHeadersFine(msg[1])) =>
                   /\ email_data' # <<>>
                   /\ Len(s) = 1 => email_data'[1].subject = ExpectedText(s[1])
                   /\ Len(s) = 2 => email_data'[1].subject =
                                        ExpectedText(s[1]) \o ExpectedText(s[2])
                   /\ Len(s) <= 2]_vars

\* C18 holds of every subject whose words are valid in their charsets
C18_ValidWordsJoined ==
    [][NormalizeCalled =>
          LET s == msg[1].subject
          IN  (/\ s # <<>>
               /\ \A i \in DOMAIN s : s[i][2] \in KnownCharsets \cup {""}
               /\ \A i \in DOMAIN s : ExpectedText(s[i]) # ReplacementMarker
               /\ OtherHeadersFine(msg[1])) =>
                   /\ email_data' # <<>>
                   /\ Len(s) = 1 => email_data'[1].subject = ExpectedText(s[1])
                   /\ Len(s) = 2 => email_data'[1].subject =
                                        ExpectedText(s[1]) \o ExpectedText(s[2])]_vars

\* the calls made on the session or the store between open and close
SessionOps ==
    Ops("select") \cup Ops("search") \cup Ops("fetch") \cup Ops("normalize")
        \cup Ops("save")

\* the call at k has finished with the current id: a fetch that was not OK,
\* a normalization that gave None, or a save that returned
DoneWithId(k) ==
    \/ calls[k].op = "fetch" /\ calls[k].out = "NO"
    \/ calls[k].op = "normalize" /\ calls[k].out = "None"
    \/ calls[k].op = "save" /\ calls[k].out = "ok"

\* C19: every select, search, fetch, normalize and save comes after the
\* successful connect and before the logout; the ids are fetched in the
\* order search listed them, each at most once; a save of an id directly
\* follows that id's normalization to a record, which directly follows that
\* id's OK fetch; the fetch of the next id directly follows the call that
\* finished the id before it.
C19_SweepOrder ==
    /\ \A k \in SessionOps :
         /\ \E c \in Ops("connect") : c < k /\ calls[c].out = "ok"
         /\ \A l \in Ops("logout") : k < l
    /\ \A l \in Ops("logout") : l = Len(calls)
    /\ \A s1 \in Ops("select"), s2 \in Ops("search"), f \in Ops("fetch") :
         s1 < s2 /\ s2 < f /\ calls[s1].out \in {"OK", "NO"} /\ calls[s2].out = "OK"
    /\ \A f \in Ops("fetch") : calls[f].id \in 1..Listed
    /\ \A f, g \in Ops("fetch") :
         /\ f < g => calls[f].id < calls[g].id
         /\ calls[f].id = calls[g].id => f = g
    /\ \A n \in Ops("normalize") :
         /\ n > 1
         /\ calls[n - 1].op = "fetch"
         /\ calls[n - 1].id = calls[n].id
         /\ calls[n - 1].out = "OK"
    /\ \A j \in Ops("save") :
         /\ j > 2
         /\ calls[j - 1].op = "normalize"
         /\ calls[j - 1].id = calls[j].id
         /\ calls[j - 1].out = "record"
         /\ calls[j - 1].key = calls[j].key
    /\ \A f \in Ops("fetch") :
         IF calls[f].id = 1
         THEN calls[f - 1].op = "search"
         ELSE DoneWithId(f - 1) /\ calls[f - 1].id = calls[f].id - 1
    /\ pc = "normalize" => calls[Len(calls)].op = "fetch"
    /\ pc = "save" => calls[Len(calls)].op = "normalize"

\* two ids were listed; the first was fetched, normalized and saved, then
\* the second, and the session was closed
C19_Witness ==
    /\ pc = "exit"
    /\ Listed = 2
    /\ NumCalls("save") = 2
    /\ \A k \in Ops("save") : calls[k].out = "ok"
    /\ NumCalls("logout") = 1

\* the calls of the named operation made for id x
CallsFor(name, x) == {k \in Ops(name) : calls[k].id = x}

\* C20: when every call returns or raises, main reaches its end, with the
\* session closed or never opened, after at most 3 connect attempts, one
\* select, one search and at most one fetch, one normalization and one save
\* for each listed id.
C20_SweepTerminates ==
    /\ <>(pc = "exit")
    /\ [](/\ NumCalls("connect") <= 3
          /\ NumCalls("select") <= 1
          /\ NumCalls("search") <= 1
          /\ NumCalls("logout") <= 1
          /\ \A x \in 0..Listed + 1 :
               /\ Cardinality(CallsFor("fetch", x)) <= (IF x \in 1..Listed THEN 1 ELSE 0)
               /\ Cardinality(CallsFor("normalize", x)) <= Cardinality(CallsFor("fetch", x))
               /\ Cardinality(CallsFor("save", x)) <= Cardinality(CallsFor("normalize", x))
          /\ Len(calls) <= 3 + 2 + 3 * Listed + 1
          /\ pc = "exit" => (~mail \/ NumCalls("logout") = 1))

\* the longest sweep: the third connect attempt succeeded, two ids were
\* listed and each was fetched, normalized and saved, and the session was
\* closed
C20_Witness ==
    /\ pc = "exit"
    /\ NumCalls("connect") = 3
    /\ Listed = 2
    /\ NumCalls("fetch") = 2 /\ NumCalls("normalize") = 2 /\ NumCalls("save") = 2
    /\ Len(calls) = 3 + 2 + 3 * 2 + 1

====
